---- MODULE Spec2Model ----
(***************************************************************************)
(* Shipping-management PoC (src/app.py): the sample-data generator, the    *)
(* cached data load of main(), the page dispatch and the cargo-mix         *)
(* calculation of the optimization page.                                   *)
(*                                                                         *)
(* Python floats are IEEE-754 binary64.  The model carries them exactly:   *)
(* a float is a sign, a 53-bit significand held as a little-endian         *)
(* sequence of 14-bit limbs, and a binary exponent; every operation        *)
(* rounds to nearest, ties to even, as the hardware does.  The values of   *)
(* the program stay far from overflow and from the subnormal range, so     *)
(* neither is modelled.                                                    *)
(***************************************************************************)
EXTENDS Integers, Sequences, FiniteSets, TLC

\* ------------------------------------------------------------------------
\* Natural numbers of arbitrary size (limbs base 2^14, least significant
\* first, no leading zero limb).
\* ------------------------------------------------------------------------
LimbBits == 7 + 7
Base == 128 * 128
MantBits == 52 + 1

\* 2^k for 0 <= k <= 14
Pow2(k) == <<1, 2, 4, 8, 16, 32, 64, 128, 256, 512, 1024, 2048, 4096, 8192, 16384>>[k + 1]

RECURSIVE Strip(_)
Strip(a) ==
    IF a = <<>> THEN a
    ELSE IF a[Len(a)] = 0 THEN Strip(SubSeq(a, 1, Len(a) - 1)) ELSE a

RECURSIVE BigOf(_)
BigOf(n) == IF n = 0 THEN <<>> ELSE <<n % Base>> \o BigOf(n \div Base)

RECURSIVE BigToInt(_)
BigToInt(a) == IF a = <<>> THEN 0 ELSE a[1] + Base * BigToInt(Tail(a))

RECURSIVE MulCarry(_, _, _)
MulCarry(a, n, c) ==
    IF a = <<>> THEN BigOf(c)
    ELSE LET t == a[1] * n + c
         IN  <<t % Base>> \o MulCarry(Tail(a), n, t \div Base)

\* a * n for a small n (n < 2^17, so that limb * n fits the machine word)
BigMulSmall(a, n) == Strip(MulCarry(a, n, 0))

\* one step of long division: the limb below the part already divided
DivStep(hi, limb, d) ==
    [q |-> <<(hi.r * Base + limb) \div d>> \o hi.q, r |-> (hi.r * Base + limb) % d]

RECURSIVE DivRem(_, _)
DivRem(a, d) ==
    IF a = <<>> THEN [q |-> <<>>, r |-> 0]
    ELSE DivStep(DivRem(Tail(a), d), a[1], d)

\* quotient of a by a small d (0 < d < 2^17)
BigDivSmall(a, d) == Strip(DivRem(a, d).q)

RECURSIVE AddCarry(_, _, _)
AddCarry(a, b, c) ==
    IF a = <<>> /\ b = <<>> THEN BigOf(c)
    ELSE LET x == IF a = <<>> THEN 0 ELSE a[1]
             y == IF b = <<>> THEN 0 ELSE b[1]
             t == x + y + c
         IN  <<t % Base>> \o AddCarry(IF a = <<>> THEN a ELSE Tail(a),
                                      IF b = <<>> THEN b ELSE Tail(b),
                                      t \div Base)

BigAdd(a, b) == Strip(AddCarry(a, b, 0))

RECURSIVE SubBorrow(_, _, _)
SubBorrow(a, b, c) ==
    IF a = <<>> THEN <<>>
    ELSE LET y == IF b = <<>> THEN 0 ELSE b[1]
             t == a[1] - y - c
         IN  <<t % Base>> \o SubBorrow(Tail(a),
                                       IF b = <<>> THEN b ELSE Tail(b),
                                       IF t < 0 THEN 1 ELSE 0)

\* a - b for a >= b
BigSub(a, b) == Strip(SubBorrow(a, b, 0))

RECURSIVE CmpFrom(_, _, _)
CmpFrom(a, b, i) ==
    IF i = 0 THEN 0
    ELSE IF a[i] > b[i] THEN 1
    ELSE IF a[i] < b[i] THEN -1
    ELSE CmpFrom(a, b, i - 1)

\* -1, 0, 1 as a < b, a = b, a > b
BigCmp(a, b) ==
    IF Len(a) > Len(b) THEN 1
    ELSE IF Len(a) < Len(b) THEN -1
    ELSE CmpFrom(a, b, Len(a))

RECURSIVE BitLenInt(_)
BitLenInt(n) == IF n = 0 THEN 0 ELSE 1 + BitLenInt(n \div 2)

BitLen(a) ==
    IF a = <<>> THEN 0 ELSE (Len(a) - 1) * LimbBits + BitLenInt(a[Len(a)])

BigShl(a, k) ==
    IF a = <<>> THEN a
    ELSE [i \in 1..(k \div LimbBits) |-> 0] \o BigMulSmall(a, Pow2(k % LimbBits))

BigShr(a, k) ==
    IF k \div LimbBits >= Len(a) THEN <<>>
    ELSE BigDivSmall(SubSeq(a, (k \div LimbBits) + 1, Len(a)), Pow2(k % LimbBits))

\* a = 0
BigIsZero(a) == \A i \in 1..Len(a) : a[i] = 0

\* the d low limbs of a
LowLimbs(a, d) == SubSeq(a, 1, IF d < Len(a) THEN d ELSE Len(a))

\* -1, 0 or 1 as top * Base^n + below is under, at, or over half * Base^n
HalfCmp(top, half, below) ==
    IF top > half THEN 1
    ELSE IF top < half THEN -1
    ELSE IF BigIsZero(below) THEN 0 ELSE 1

\* a split after its d low limbs and r more bits (0 <= r < LimbBits), x
\* being the limbs above the d low ones divided by 2^r
SplitAt(a, d, r, x) ==
    [q     |-> Strip(x.q),
     low   |-> IF r > 0 THEN HalfCmp(x.r, Pow2(r - 1), LowLimbs(a, d))
               ELSE IF d = 0 THEN 0
               ELSE HalfCmp(IF d <= Len(a) THEN a[d] ELSE 0, Pow2(LimbBits - 1),
                            LowLimbs(a, d - 1)),
     exact |-> x.r = 0 /\ BigIsZero(LowLimbs(a, d))]

\* a split at bit k: q is a with its k low bits dropped; low is -1, 0 or 1
\* as those k bits are below, at, or above one half of 2^k (0 when k = 0);
\* exact says that they are all zero
BigSplit(a, k) ==
    SplitAt(a, k \div LimbBits, k % LimbBits,
            IF k \div LimbBits >= Len(a) THEN [q |-> <<>>, r |-> 0]
            ELSE DivRem(SubSeq(a, (k \div LimbBits) + 1, Len(a)), Pow2(k % LimbBits)))

\* ------------------------------------------------------------------------
\* binary64
\* ------------------------------------------------------------------------
FZero == [sign |-> 1, man |-> <<>>, exp |-> 0]

Float(sign, man, exp) == [sign |-> sign, man |-> man, exp |-> exp]

\* the significand q, just rounded up, may have reached 2^53
Renormalize(sign, q, e) ==
    IF BitLen(q) > MantBits THEN Float(sign, BigShr(q, 1), e + 1)
    ELSE Float(sign, q, e)

\* ties go to the even significand
RoundSplit(sign, s, e, sticky) ==
    IF s.low > 0 \/ (s.low = 0 /\ (sticky \/ s.q[1] % 2 = 1))
    THEN Renormalize(sign, BigAdd(s.q, <<1>>), e)
    ELSE Float(sign, s.q, e)

\* m has L bits
RoundBits(sign, m, e, sticky, L) ==
    IF L <= MantBits
    THEN Float(sign, BigShl(m, MantBits - L), e - (MantBits - L))
    ELSE RoundSplit(sign, BigSplit(m, L - MantBits), e + (L - MantBits), sticky)

\* The float nearest to sign * m * 2^e (ties to even); sticky says that the
\* true value lies strictly above m * 2^e in magnitude, by less than 2^e.
RoundNearestEven(sign, m, e, sticky) ==
    IF m = <<>> THEN FZero ELSE RoundBits(sign, m, e, sticky, BitLen(m))

Sgn(n) == IF n < 0 THEN -1 ELSE 1
Abs(n) == IF n < 0 THEN -n ELSE n
Min(x, y) == IF x < y THEN x ELSE y

\* float(n) for an int n
FloatOfInt(n) == RoundNearestEven(Sgn(n), BigOf(Abs(n)), 0, FALSE)

\* the float nearest to sign * (the quotient x.q and a remainder x.r) * 2^e
RoundQuotient(sign, x, e) == RoundNearestEven(sign, Strip(x.q), e, x.r # 0)

\* a float literal written as the decimal fraction p/q (p >= 0, 0 < q < 2^17)
FloatLiteral(p, q) ==
    RoundQuotient(1, DivRem(BigShl(BigOf(p), 5 * LimbBits), q), -(5 * LimbBits))

FNeg(a) == [a EXCEPT !.sign = -a.sign]

\* sa * am * 2^e + sb * bm * 2^e, c comparing am with bm
AddAligned(sa, am, sb, bm, e, c) ==
    IF sa = sb THEN RoundNearestEven(sa, BigAdd(am, bm), e, FALSE)
    ELSE IF c = 0 THEN FZero
    ELSE IF c > 0 THEN RoundNearestEven(sa, BigSub(am, bm), e, FALSE)
    ELSE RoundNearestEven(sb, BigSub(bm, am), e, FALSE)

AddShifted(sa, am, sb, bm, e) == AddAligned(sa, am, sb, bm, e, BigCmp(am, bm))

\* a + b
FAdd(a, b) ==
    IF a.man = <<>> THEN b
    ELSE IF b.man = <<>> THEN a
    ELSE AddShifted(a.sign, BigShl(a.man, a.exp - Min(a.exp, b.exp)),
                    b.sign, BigShl(b.man, b.exp - Min(a.exp, b.exp)),
                    Min(a.exp, b.exp))

\* a - b
FSub(a, b) == FAdd(a, FNeg(b))

IsNonNegative(d) == d.man = <<>> \/ d.sign = 1

\* a <= b
FLeq(a, b) == IsNonNegative(FSub(b, a))

\* n * a for an int n (|n| < 2^17) and a float a: Python converts n to a
\* float, exactly, and multiplies
FMulInt(n, a) ==
    IF n = 0 THEN FZero
    ELSE RoundNearestEven(Sgn(n) * a.sign, BigMulSmall(a.man, Abs(n)), a.exp, FALSE)

\* a / n for a float a and an int n (0 < n < 2^17)
FDivInt(a, n) ==
    RoundQuotient(a.sign, DivRem(BigShl(a.man, 5 * LimbBits), n), a.exp - 5 * LimbBits)

\* the whole part of a, the fraction dropped
FTrunc(a) ==
    a.sign * BigToInt(IF a.exp >= 0 THEN BigShl(a.man, a.exp)
                      ELSE BigShr(a.man, -a.exp))

\* a is a whole number
FIsInt(a) == a.exp >= 0 \/ BigSplit(a.man, -a.exp).exact

\* int(a) with the rounding going up instead of toward zero
IntCeil(a) == FTrunc(a) + (IF FIsInt(a) THEN 0 ELSE 1)

\* int(a): truncation toward zero
IntOfFloat(a) == FTrunc(a)

\* ------------------------------------------------------------------------
\* The random module.  Python's generator (a Mersenne Twister) is outside the
\* repository; it is modelled as a source with a finite cycle of states in
\* which every draw reads the current state and moves to the next one.  The
\* cycle is long enough for a cargo-pattern choice and the slack draw after
\* it to take every pair of values.
\* ------------------------------------------------------------------------
SlackMin == 2000
SlackMax == 5000
EtaDaysMin == 1
EtaDaysMax == 10

Period == 3 * (SlackMax - SlackMin + 1)

\* the state of the source k draws after state s
Advance(s, k) == (s + k) % Period

\* random.seed(s), applied to a source in state old
RandomSeedMixed(old, s) == (old + s) % Period
RandomSeed(old, s) == s % Period

\* random.choice(seq), drawn in state s
RandomChoice(s, seq) == seq[(s % Len(seq)) + 1]

\* random.randint(a, b), drawn in state s: a <= result <= b
RandomRandintOpen(s, a, b) == a + (s % (b - a + 2))
RandomRandint(s, a, b) == a + (s % (b - a + 1))

\* ------------------------------------------------------------------------
\* generate_sample_data
\* ------------------------------------------------------------------------
ships_data == <<
    [ship_id |-> "BULK_001", ship_name |-> "Kaio-maru",   capacity |-> 60000, status |-> "sailing"],
    [ship_id |-> "BULK_002", ship_name |-> "Taiyo-maru",  capacity |-> 58000, status |-> "cargo work"],
    [ship_id |-> "BULK_003", ship_name |-> "Taihei-maru", capacity |-> 62000, status |-> "waiting offshore"],
    [ship_id |-> "BULK_004", ship_name |-> "Tokai-maru",  capacity |-> 59000, status |-> "preparing to enter port"] >>

cargo_patterns == <<
    [pattern |-> "CORN+MILO",   corn_ratio |-> FloatLiteral(6, 10), milo_ratio |-> FloatLiteral(4, 10),
     barley_ratio |-> FloatLiteral(0, 10)],
    [pattern |-> "CORN+BARLEY", corn_ratio |-> FloatLiteral(7, 10), milo_ratio |-> FloatLiteral(0, 10),
     barley_ratio |-> FloatLiteral(3, 10)],
    [pattern |-> "MILO+BARLEY", corn_ratio |-> FloatLiteral(0, 10), milo_ratio |-> FloatLiteral(55, 100),
     barley_ratio |-> FloatLiteral(45, 100)] >>

loading_ports == <<"Seattle", "Vancouver", "New Orleans">>

discharge_port_sets == << <<"CHIBA">>, <<"YOKOHAMA">>, <<"CHIBA", "NAGOYA">>, <<"YOKOHAMA", "CHIBA">> >>

\* The clock is read in ticks; a day is TicksPerDay of them.
TicksPerDay == 2
MaxClock == 1
Clocks == 0..MaxClock

\* the readings of datetime.now() during one call, one per voyage
ClockReadings ==
    {r \in [1..Len(ships_data) -> Clocks] :
        \A i \in 1..(Len(ships_data) - 1) : r[i] <= r[i + 1]}

DigitChars == <<"0", "1", "2", "3", "4", "5", "6", "7", "8", "9">>

RECURSIVE DecimalDigits(_)
DecimalDigits(n) ==
    IF n < 10 THEN <<DigitChars[n + 1]>>
    ELSE DecimalDigits(n \div 10) \o <<DigitChars[(n % 10) + 1]>>

\* f"{n:03d}"
Format03d(n) ==
    LET d == DecimalDigits(n)
    IN  IF Len(d) >= 3 THEN d ELSE [k \in 1..(3 - Len(d)) |-> "0"] \o d

\* f"V2024{i+1:03d}" for the loop index i (from 0)
VoyageIdFromIndex(i) == <<"V", "2", "0", "2", "4">> \o Format03d(i)
VoyageId(i) == <<"V", "2", "0", "2", "4">> \o Format03d(i + 1)

\* ship["capacity"] - random.randint(2000, 5000)
TotalCargoSwapped(capacity, slack) == slack - capacity
TotalCargo(capacity, slack) == capacity - slack

\* int(total_cargo * ratio)
Tons(total_cargo, ratio) == IntOfFloat(FMulInt(total_cargo, ratio))

\* datetime.now() + timedelta(days=days)
Eta(now, days) == now + days * TicksPerDay

\* the voyage dict of line 40, for the pattern and the total cargo drawn
VoyageRecord(i, ship, s, now, pattern, total_cargo) ==
    [voyage_id       |-> VoyageId(i),
     ship_name       |-> ship.ship_name,
     ship_status     |-> ship.status,
     total_cargo     |-> total_cargo,
     cargo_pattern   |-> pattern.pattern,
     corn_tons       |-> Tons(total_cargo, pattern.corn_ratio),
     milo_tons       |-> Tons(total_cargo, pattern.milo_ratio),
     barley_tons     |-> Tons(total_cargo, pattern.barley_ratio),
     loading_port    |-> RandomChoice(Advance(s, 2), loading_ports),
     eta             |-> Eta(now, RandomRandint(Advance(s, 3), EtaDaysMin, EtaDaysMax)),
     discharge_ports |-> RandomChoice(Advance(s, 4), discharge_port_sets)]

\* one pass of the loop body: the voyage of ship number i (from 0), the
\* source being in state s when the pass starts and the clock reading now
Voyage(i, ship, s, now) ==
    VoyageRecord(i, ship, s, now,
                 RandomChoice(s, cargo_patterns),
                 TotalCargo(ship.capacity,
                            RandomRandint(Advance(s, 1), SlackMin, SlackMax)))

\* the call: the two frames returned and the state the source is left in
generate_sample_data(s, nows) ==
    [ships    |-> ships_data,
     voyages  |-> [i \in 1..Len(ships_data) |->
                      Voyage(i - 1, ships_data[i], Advance(s, 5 * (i - 1)), nows[i])],
     rng      |-> Advance(s, 5 * Len(ships_data))]

\* ------------------------------------------------------------------------
\* The optimization page (show_optimization_sim)
\* ------------------------------------------------------------------------
CapacityMin == 50000
CapacityMax == 70000
CapacityDefault == 60000
CornRatioDefault == 6
MiloRatioDefault == 3
CornPriceDefault == 250
MiloPriceDefault == 240
BarleyPriceDefault == 280
EfficiencyMin == 75
EfficiencyMax == 95

\* The sliders move in steps of 0.1 from 0.0: position k stands for the float
\* written k/10.
SliderValue(k) == FloatLiteral(k, 10)

FOne == FloatLiteral(1, 1)

\* st.slider(label, 0.0, max_value, value, 0.1): the positions the widget
\* offers.  Streamlit widens the bounds it is given until they hold the
\* default value, so the upper end is the larger of max_value and value.
SliderTop(max_value, value) ==
    IF FLeq(SliderValue(value), max_value) THEN max_value ELSE SliderValue(value)

SliderPositions(max_value, value) ==
    {k \in 0..10 : FLeq(SliderValue(k), SliderTop(max_value, value))}

\* st.slider("corn ratio", 0.0, 1.0, 0.6, 0.1)
CornPositions == SliderPositions(FOne, CornRatioDefault)

\* st.slider("milo ratio", 0.0, 1.0-corn_ratio, 0.3, 0.1), by corn position
MiloPositions ==
    [c \in 0..10 |-> SliderPositions(FSub(FOne, SliderValue(c)), MiloRatioDefault)]

\* barley_ratio = 1.0 - corn_ratio - milo_ratio, by corn and milo position
BarleyRatio ==
    [c \in 0..10 |-> [m \in 0..10 |-> FSub(FSub(FOne, SliderValue(c)), SliderValue(m))]]

\* st.number_input("capacity", min_value=50000, max_value=70000, ...): any
\* whole number of the range can be typed; these are the ones tried
Capacities == {CapacityMin, CapacityDefault, CapacityMax}

\* st.number_input(label, value=default): the prices tried, in whole dollars
Prices(default) == {0, default}

\* no figures shown
NoResult == <<>>

\* total_revenue and the metrics of lines 228-238
Figures(capacity, corn_tons, milo_tons, barley_tons, total_revenue, s) ==
    [corn_tons        |-> corn_tons,
     milo_tons        |-> milo_tons,
     barley_tons      |-> barley_tons,
     total_revenue    |-> total_revenue,
     average_price    |-> FDivInt(total_revenue, capacity),
     efficiency_score |-> RandomRandint(s, EfficiencyMin, EfficiencyMax)]

Revenue(capacity, corn_tons, milo_tons, barley_tons, cp, mp, bp, s) ==
    Figures(capacity, corn_tons, milo_tons, barley_tons,
            FAdd(FAdd(FMulInt(corn_tons, FloatOfInt(cp)),
                      FMulInt(milo_tons, FloatOfInt(mp))),
                 FMulInt(barley_tons, FloatOfInt(bp))),
            s)

\* the body of `if st.button(...)`: the figures shown, the random source
\* being in state s
OptimizationResult(capacity, corn, milo, cp, mp, bp, s) ==
    Revenue(capacity,
            IntOfFloat(FMulInt(capacity, SliderValue(corn))),
            IntOfFloat(FMulInt(capacity, SliderValue(milo))),
            IntOfFloat(FMulInt(capacity, BarleyRatio[corn][milo])),
            cp, mp, bp, s)

\* ------------------------------------------------------------------------
\* State
\* ------------------------------------------------------------------------
\* seeded: <<>> or <<the seed>>; cache, ships_df, voyages_df: <<>> while empty
NotSeeded == <<>>
NoData == <<>>

Dashboard == "dashboard"
CargoAnalysis == "cargo analysis"
Optimization == "optimization simulation"
Report == "performance report"
Pages == {Dashboard, CargoAnalysis, Optimization, Report}

VARIABLES
    rng,            \* the state of the process-wide random module
    seeded,         \* <<the seed given to random.seed>> while no draw followed, or NotSeeded
    runs,           \* what the direct calls of the generator returned, in order
    cache,          \* the values st.cache_data holds for generate_sample_data
    page,           \* the page chosen in the sidebar
    ships_df,       \* main's ships_df in the last script run, or NoData before the first
    voyages_df,     \* main's voyages_df in the last script run
    ship_capacity,  \* the capacity input
    corn_ratio,     \* the corn slider's position, in tenths
    milo_ratio,     \* the milo slider's position, in tenths
    corn_price,     \* the three price inputs, in whole dollars
    milo_price,
    barley_price,
    result,         \* <<the figures of the optimization run shown>>, or NoResult
    renders         \* the script runs so far in which a view drew random numbers

dataVars == <<cache, ships_df, voyages_df>>
widgetVars == <<ship_capacity, corn_ratio, milo_ratio, corn_price, milo_price, barley_price>>
appVars == <<dataVars, page, widgetVars, result, renders>>
vars == <<rng, seeded, runs, appVars>>

\* The session before its first script run: nothing cached, the first page
\* chosen, every widget at its default.
AppStart ==
    /\ cache = NoData
    /\ page = Dashboard
    /\ ships_df = NoData
    /\ voyages_df = NoData
    /\ ship_capacity = CapacityDefault
    /\ corn_ratio = CornRatioDefault
    /\ milo_ratio = MiloRatioDefault
    /\ corn_price = CornPriceDefault
    /\ milo_price = MiloPriceDefault
    /\ barley_price = BarleyPriceDefault
    /\ result = NoResult
    /\ renders = 0

\* the clock readings of a call whose four readings fall in one tick
SteadyReadings == {r \in ClockReadings : \A i \in DOMAIN r : r[i] = r[1]}

\* ------------------------------------------------------------------------
\* Direct calls of the generator, as a test makes them
\* ------------------------------------------------------------------------
Returned(out, seed, nows) ==
    /\ runs' = Append(runs, [seed |-> seed, nows |-> nows,
                             ships |-> out.ships, voyages |-> out.voyages])
    /\ rng' = out.rng

Call(readings) ==
    /\ \E nows \in readings : Returned(generate_sample_data(rng, nows), seeded, nows)
    /\ seeded' = NotSeeded
    /\ UNCHANGED appVars

\* The generator applied once to every state of the random source.
GenInit ==
    /\ rng \in 0..(Period - 1)
    /\ seeded = NotSeeded
    /\ runs = <<>>
    /\ AppStart

CallOnce ==
    /\ runs = <<>>
    /\ Call(SteadyReadings)

GenNext == CallOnce

SpecGen == GenInit /\ [][GenNext]_vars

\* Two calls, each of them after random.seed or not.
NumTestSeeds == 6
TestSeeds == 0..(NumTestSeeds - 1)

RunsInit ==
    /\ rng = 0
    /\ seeded = NotSeeded
    /\ runs = <<>>
    /\ AppStart

SeedRandom(s) ==
    /\ Len(runs) < 2
    /\ rng' = RandomSeed(rng, s)
    /\ seeded' = <<s>>
    /\ UNCHANGED <<runs, appVars>>

CallAgain ==
    /\ Len(runs) < 2
    /\ Call(ClockReadings)

RunsNext ==
    \/ \E s \in TestSeeds : SeedRandom(s)
    \/ CallAgain

SpecRuns == RunsInit /\ [][RunsNext]_vars

\* ------------------------------------------------------------------------
\* The session: every action is a user's move followed by the script run
\* (main) that Streamlit starts for it.
\* ------------------------------------------------------------------------
MaxRandomRenders == 1

\* st.cache_data: the stored value is returned when there is one
CacheNeverHit(c) == FALSE
CacheHit(c) == c # NoData

\* whether the view of page p draws random numbers in this run
Draws(p, pressed) == p = Report \/ (p = Optimization /\ pressed)

\* the call of generate_sample_data through the cache: the value returned
\* and the random source after it; a stored value is returned as it is, and
\* only a call that runs the function reads the clock and draws
Stored(stored) == [data |-> stored[1], rng |-> rng]
Computed(out) == [data |-> [ships |-> out.ships, voyages |-> out.voyages], rng |-> out.rng]

\* the view of page p, handed the data loaded
Show(p, capacity, corn, milo, cp, mp, bp, pressed, loaded) ==
    /\ cache' = <<loaded.data>>
    /\ ships_df' = loaded.data.ships
    /\ voyages_df' = loaded.data.voyages
    /\ IF p = Optimization /\ pressed
       THEN /\ result' = <<OptimizationResult(capacity, corn, milo, cp, mp, bp, loaded.rng)>>
            /\ rng' = Advance(loaded.rng, 1)
       ELSE /\ result' = NoResult
            /\ rng' = IF p = Report THEN Advance(loaded.rng, 6 + 2) ELSE loaded.rng

\* main(), with page p chosen, the optimization widgets as given and the
\* button pressed or not
Main(p, capacity, corn, milo, cp, mp, bp, pressed) ==
    /\ Draws(p, pressed) => renders < MaxRandomRenders
    /\ renders' = IF Draws(p, pressed) THEN renders + 1 ELSE renders
    /\ page' = p
    /\ IF CacheHit(cache)
       THEN Show(p, capacity, corn, milo, cp, mp, bp, pressed, Stored(cache))
       ELSE \E nows \in SteadyReadings :
              Show(p, capacity, corn, milo, cp, mp, bp, pressed,
                   Computed(generate_sample_data(rng, nows)))
    \* a widget that a run does not show loses its state
    /\ IF p = Optimization
       THEN /\ ship_capacity' = capacity
            /\ corn_ratio' = corn
            /\ milo_ratio' = milo
            /\ corn_price' = cp
            /\ milo_price' = mp
            /\ barley_price' = bp
       ELSE /\ ship_capacity' = CapacityDefault
            /\ corn_ratio' = CornRatioDefault
            /\ milo_ratio' = MiloRatioDefault
            /\ corn_price' = CornPriceDefault
            /\ milo_price' = MiloPriceDefault
            /\ barley_price' = BarleyPriceDefault
    /\ UNCHANGED <<seeded, runs>>

Started == ships_df # NoData

Start ==
    /\ ~Started
    /\ Main(page, ship_capacity, corn_ratio, milo_ratio,
            corn_price, milo_price, barley_price, FALSE)

SelectPage(p) ==
    /\ Started
    /\ p # page
    /\ Main(p, CapacityDefault, CornRatioDefault, MiloRatioDefault,
            CornPriceDefault, MiloPriceDefault, BarleyPriceDefault, FALSE)

Rerun ==
    /\ Started
    /\ Main(page, ship_capacity, corn_ratio, milo_ratio,
            corn_price, milo_price, barley_price, FALSE)

SetCapacity(c) ==
    /\ Started /\ page = Optimization
    /\ c # ship_capacity
    /\ Main(page, c, corn_ratio, milo_ratio, corn_price, milo_price, barley_price, FALSE)

\* moving the corn slider changes the arguments of the milo slider, which
\* makes it a new widget, at its default
SetCornRatio(k) ==
    /\ Started /\ page = Optimization
    /\ k # corn_ratio
    /\ Main(page, ship_capacity, k, MiloRatioDefault,
            corn_price, milo_price, barley_price, FALSE)

SetMiloRatio(k) ==
    /\ Started /\ page = Optimization
    /\ k \in MiloPositions[corn_ratio]
    /\ k # milo_ratio
    /\ Main(page, ship_capacity, corn_ratio, k, corn_price, milo_price, barley_price, FALSE)

SetCornPrice(v) ==
    /\ Started /\ page = Optimization
    /\ v # corn_price
    /\ Main(page, ship_capacity, corn_ratio, milo_ratio, v, milo_price, barley_price, FALSE)

SetMiloPrice(v) ==
    /\ Started /\ page = Optimization
    /\ v # milo_price
    /\ Main(page, ship_capacity, corn_ratio, milo_ratio, corn_price, v, barley_price, FALSE)

SetBarleyPrice(v) ==
    /\ Started /\ page = Optimization
    /\ v # barley_price
    /\ Main(page, ship_capacity, corn_ratio, milo_ratio, corn_price, milo_price, v, FALSE)

PressButton ==
    /\ Started /\ page = Optimization
    /\ Main(page, ship_capacity, corn_ratio, milo_ratio,
            corn_price, milo_price, barley_price, TRUE)

Init ==
    /\ rng = 0
    /\ seeded = NotSeeded
    /\ runs = <<>>
    /\ AppStart

Next ==
    \/ Start
    \/ \E p \in Pages : SelectPage(p)
    \/ Rerun
    \/ \E c \in Capacities : SetCapacity(c)
    \/ \E k \in CornPositions : SetCornRatio(k)
    \/ \E k \in 0..10 : SetMiloRatio(k)
    \/ \E v \in Prices(CornPriceDefault) : SetCornPrice(v)
    \/ \E v \in Prices(MiloPriceDefault) : SetMiloPrice(v)
    \/ \E v \in Prices(BarleyPriceDefault) : SetBarleyPrice(v)
    \/ PressButton

Spec == Init /\ [][Next]_vars

\* ------------------------------------------------------------------------
\* Properties of the generator (SpecGen, SpecRuns)
\* ------------------------------------------------------------------------
\* the voyages the direct calls returned, each with the ship it was made for
Generated ==
    {[ship |-> runs[r].ships[i], voyage |-> runs[r].voyages[i]] :
        r \in 1..Len(runs), i \in 1..Len(ships_data)}

\* C1: in every generated voyage each of corn_tons, milo_tons and barley_tons
\* is at least 0 and at most the voyage's total_cargo.
C1_TonsWithinTotalCargo ==
    \A g \in Generated :
        /\ 0 <= g.voyage.corn_tons   /\ g.voyage.corn_tons   <= g.voyage.total_cargo
        /\ 0 <= g.voyage.milo_tons   /\ g.voyage.milo_tons   <= g.voyage.total_cargo
        /\ 0 <= g.voyage.barley_tons /\ g.voyage.barley_tons <= g.voyage.total_cargo

\* a call has returned a voyage of each of the three cargo patterns, one of
\* them with a commodity that carries nothing and one that carries most
C1_Witness ==
    /\ \A p \in {"CORN+MILO", "CORN+BARLEY", "MILO+BARLEY"} :
         \E g \in Generated : g.voyage.cargo_pattern = p
    /\ \E g \in Generated :
         /\ g.voyage.milo_tons = 0
         /\ g.voyage.corn_tons > g.voyage.barley_tons
         /\ g.voyage.barley_tons > 0

\* C2: every voyage's total_cargo is its ship's capacity minus a slack in
\* [2000, 5000], hence never more than the capacity.
C2_TotalCargoIsCapacityMinusSlack ==
    \A g \in Generated :
        /\ g.ship.capacity - g.voyage.total_cargo >= SlackMin
        /\ g.ship.capacity - g.voyage.total_cargo <= SlackMax
        /\ g.voyage.total_cargo <= g.ship.capacity

\* a call has drawn the largest slack for one of its ships and a slack near
\* the smallest for another
C2_Witness ==
    /\ \E g \in Generated : g.voyage.total_cargo = g.ship.capacity - SlackMax
    /\ \E g \in Generated : g.voyage.total_cargo > g.ship.capacity - SlackMin - 10

\* C3: a call returns the catalog as the ships and one voyage per ship, in
\* catalog order: voyage number i carries the name of ship number i and the
\* id V2024 followed by i in three digits, V2024001 to V2024004.
C3_OneVoyagePerShipInOrder ==
    \A r \in 1..Len(runs) :
        /\ runs[r].ships = ships_data
        /\ Len(runs[r].voyages) = Len(runs[r].ships)
        /\ \A i \in 1..Len(runs[r].voyages) :
             /\ runs[r].voyages[i].ship_name = runs[r].ships[i].ship_name
             /\ runs[r].voyages[i].voyage_id =
                    <<"V", "2", "0", "2", "4", "0", "0", DigitChars[i + 1]>>

\* a call has returned its four voyages, the last one numbered 004
C3_Witness ==
    /\ Len(runs) = 1
    /\ Len(runs[1].voyages) = 4
    /\ runs[1].voyages[4].voyage_id = <<"V", "2", "0", "2", "4", "0", "0", "4">>
    /\ runs[1].voyages[4].ship_name = "Tokai-maru"

\* C10: the three tonnages of a generated voyage add up to no more than its
\* total_cargo and to no less than total_cargo - 2.
C10_TruncationLosesAtMostTwo ==
    \A g \in Generated :
        /\ g.voyage.corn_tons + g.voyage.milo_tons + g.voyage.barley_tons <= g.voyage.total_cargo
        /\ g.voyage.corn_tons + g.voyage.milo_tons + g.voyage.barley_tons >= g.voyage.total_cargo - 2

\* a call has returned a voyage that lost a ton to truncation and one that
\* lost none
C10_Witness ==
    /\ \E g \in Generated : g.voyage.corn_tons + g.voyage.milo_tons + g.voyage.barley_tons = g.voyage.total_cargo - 1
    /\ \E g \in Generated : g.voyage.corn_tons + g.voyage.milo_tons + g.voyage.barley_tons = g.voyage.total_cargo

\* the runs that started right after random.seed, by pairs of equal seed
SameSeedPairs ==
    {p \in (1..Len(runs)) \X (1..Len(runs)) :
        /\ p[1] < p[2]
        /\ runs[p[1]].seed # NotSeeded
        /\ runs[p[1]].seed = runs[p[2]].seed}

C8_SnapshotKept ==
    [][cache # NoData =>
          /\ cache' = cache
          /\ ships_df' = cache[1].ships
          /\ voyages_df' = cache[1].voyages]_vars

\* the optimization page, reached by a page selection, has had a slider
\* moved and its button pressed, after a view drew random numbers
C8_Witness ==
    /\ page = Optimization
    /\ corn_ratio # CornRatioDefault
    /\ result # NoResult
    /\ renders > 0
    /\ voyages_df = cache[1].voyages

\* C4 as stated: for admissible inputs the figures shown are the exact ones:
\* each tonnage is capacity times its ratio rounded down, the barley ratio
\* being 1 - corn - milo; the revenue is the sum of tonnage times price and
\* the average is the revenue divided by the capacity; 60000 at 0.6 and 0.3,
\* priced 250, 240 and 280, gives 36000, 18000, 6000, 15000000 and 250.
C4_FiguresAreExact ==
    (result # NoResult /\ milo_ratio <= 10 - corn_ratio) =>
        /\ result[1].corn_tons = (ship_capacity * corn_ratio) \div 10
        /\ result[1].milo_tons = (ship_capacity * milo_ratio) \div 10
        /\ result[1].barley_tons = (ship_capacity * (10 - corn_ratio - milo_ratio)) \div 10
        /\ FIsInt(result[1].total_revenue)
        /\ FTrunc(result[1].total_revenue) =
               result[1].corn_tons * corn_price + result[1].milo_tons * milo_price
               + result[1].barley_tons * barley_price
        /\ FTrunc(result[1].average_price) =
               FTrunc(result[1].total_revenue) \div ship_capacity
        /\ (/\ ship_capacity = 60000 /\ corn_ratio = 6 /\ milo_ratio = 3
            /\ corn_price = 250 /\ milo_price = 240 /\ barley_price = 280)
           => /\ result[1].corn_tons = 36000
              /\ result[1].milo_tons = 18000
              /\ result[1].barley_tons = 6000
              /\ FTrunc(result[1].total_revenue) = 15000000
              /\ FIsInt(result[1].average_price)
              /\ FTrunc(result[1].average_price) = 250

\* C5 as stated: a milo ratio above 1 - corn ratio makes the calculation
\* fail: no figures are shown for it, and no negative barley tonnage.
C5_ExcessMiloIsRejected ==
    result # NoResult =>
        /\ milo_ratio <= 10 - corn_ratio
        /\ result[1].barley_tons >= 0

\* C9 as stated: on the optimization page the capacity is in 50000..70000,
\* the corn ratio in [0, 1] and the milo ratio in [0, 1 - corn ratio], so
\* that no tonnage computed is negative.
C9_WidgetsKeepTheConstraints ==
    (Started /\ page = Optimization) =>
        /\ ship_capacity >= CapacityMin /\ ship_capacity <= CapacityMax
        /\ corn_ratio >= 0 /\ corn_ratio <= 10
        /\ milo_ratio >= 0 /\ milo_ratio + corn_ratio <= 10
        /\ result # NoResult =>
             /\ result[1].corn_tons >= 0
             /\ result[1].milo_tons >= 0
             /\ result[1].barley_tons >= 0

====
